---- MODULE Spec2Model ----
(***************************************************************************)
(* Model of include/fp/result.hpp: the ErrorCode enumeration, the Error    *)
(* value type and its named constructors, Result<T, E> (tl::expected),     *)
(* the combinators make_result, has_error, maybe_error and try_to_result,  *)
(* and the fmt display adapters of Error and Result.                       *)
(*                                                                         *)
(* The library is stateless, so the state of the model is the state of one *)
(* call at a time: which function runs (op), its arguments (args), where   *)
(* it is (pc), its locals, and what it returned (ret).  Strings are TLA+   *)
(* strings; a std::optional<X> is a sequence of at most one X; a Result is *)
(* a record holding has_value and exactly one of val / err.                *)
(***************************************************************************)
EXTENDS Integers, Sequences, FiniteSets, TLC

VARIABLES
    op,       \* the function being called
    args,     \* its argument list
    pc,       \* position of the call: "call", a position inside it, "done", "propagated"
    ret,      \* the value returned (meaningful when pc = "done")
    maybe,    \* maybe_error: the local std::optional<E> maybe
    idx,      \* maybe_error: position of the fold expression in the pack (1-based)
    visited,  \* maybe_error: the pack positions the lambda was invoked on, in order
    tested,   \* maybe_error: the pack positions has_error was evaluated on
    calls,    \* try_to_result: number of invocations of f made by this call
    fret,     \* try_to_result: the value f returned, as an optional
    exc       \* try_to_result: the exception in flight, as an optional

vars == <<op, args, pc, ret, maybe, idx, visited, tested, calls, fret, exc>>

(***************************************************************************)
(* Bounds of the model.                                                    *)
(***************************************************************************)
\* longest argument pack handed to maybe_error
MaxArgs == 3
\* values of the value type T are the integers -MaxVal .. MaxVal
MaxVal == 12

Values == (0 - MaxVal) .. MaxVal

\* message texts used as Error::what and as exception messages
Whats == {"", "x", "y", "user 1", "boom"}

\* the value of ret before anything was returned
NoRet == "<no return>"

(***************************************************************************)
(* enum class ErrorCode, in declaration order (the enumerators are the     *)
(* ints 0 .. 16 in that order).                                            *)
(***************************************************************************)
ErrorCodeEnum ==
    << "UNKNOWN", "CANCELLED", "INVALID_ARGUMENT", "TIMEOUT", "NOT_FOUND",
       "ALREADY_EXISTS", "PERMISSION_DENIED", "RESOURCE_EXHAUSTED",
       "FAILED_PRECONDITION", "ABORTED", "OUT_OF_RANGE", "UNIMPLEMENTED",
       "INTERNAL", "UNAVAILABLE", "DATA_LOSS", "UNAUTHENTICATED", "EXCEPTION" >>

ErrorCode == { ErrorCodeEnum[i] : i \in 1..Len(ErrorCodeEnum) }

(***************************************************************************)
(* struct Error { ErrorCode code = UNKNOWN; std::string what = ""; }       *)
(***************************************************************************)
Error == [code : ErrorCode, what : Whats]

\* Error{} : both default member initializers apply
DefaultErrorCancelled == [code |-> "CANCELLED", what |-> ""]
DefaultError == [code |-> "UNKNOWN", what |-> ""]

\* bool Error::operator==(const Error& other)
OperatorEq(a, b) == a.code = b.code /\ a.what = b.what

\* bool Error::operator!=(const Error& other)
OperatorNeBoth(a, b) == a.code # b.code /\ a.what # b.what
OperatorNe(a, b) == a.code # b.code \/ a.what # b.what

(***************************************************************************)
(* The seventeen named constructors, in declaration order.  The header     *)
(* declares them with the default argument what = ""; their bodies are in  *)
(* the library's translation unit: each returns Error{<its code>, what}.   *)
(***************************************************************************)
ConstructorDecls ==
    << "Unknown", "Cancelled", "InvalidArgument", "Timeout", "NotFound",
       "AlreadyExists", "PermissionDenied", "ResourceExhausted",
       "FailedPrecondition", "Aborted", "OutOfRange", "Unimplemented",
       "Internal", "Unavailable", "DataLoss", "Unauthenticated", "Exception" >>

\* the default argument of every declaration: const std::string& what = ""
DefaultWhat == ""

Unknown(what) == [code |-> "UNKNOWN", what |-> what]
Cancelled(what) == [code |-> "CANCELLED", what |-> what]
InvalidArgument(what) == [code |-> "INVALID_ARGUMENT", what |-> what]
Timeout(what) == [code |-> "TIMEOUT", what |-> what]
NotFound(what) == [code |-> "NOT_FOUND", what |-> what]
AlreadyExists(what) == [code |-> "ALREADY_EXISTS", what |-> what]
PermissionDenied(what) == [code |-> "PERMISSION_DENIED", what |-> what]
ResourceExhausted(what) == [code |-> "RESOURCE_EXHAUSTED", what |-> what]
FailedPrecondition(what) == [code |-> "FAILED_PRECONDITION", what |-> what]
Aborted(what) == [code |-> "ABORTED", what |-> what]
OutOfRange(what) == [code |-> "OUT_OF_RANGE", what |-> what]
Unimplemented(what) == [code |-> "UNIMPLEMENTED", what |-> what]
Internal(what) == [code |-> "INTERNAL", what |-> what]
Unavailable(what) == [code |-> "UNAVAILABLE", what |-> what]
DataLoss(what) == [code |-> "DATA_LOSS", what |-> what]
Unauthenticated(what) == [code |-> "UNAUTHENTICATED", what |-> what]
Exception(what) == [code |-> "EXCEPTION", what |-> what]

\* a call of the constructor declared under `name` with the argument `what`
NamedConstructor(name, what) ==
    CASE name = "Unknown" -> Unknown(what)
      [] name = "Cancelled" -> Cancelled(what)
      [] name = "InvalidArgument" -> InvalidArgument(what)
      [] name = "Timeout" -> Timeout(what)
      [] name = "NotFound" -> NotFound(what)
      [] name = "AlreadyExists" -> AlreadyExists(what)
      [] name = "PermissionDenied" -> PermissionDenied(what)
      [] name = "ResourceExhausted" -> ResourceExhausted(what)
      [] name = "FailedPrecondition" -> FailedPrecondition(what)
      [] name = "Aborted" -> Aborted(what)
      [] name = "OutOfRange" -> OutOfRange(what)
      [] name = "Unimplemented" -> Unimplemented(what)
      [] name = "Internal" -> Internal(what)
      [] name = "Unavailable" -> Unavailable(what)
      [] name = "DataLoss" -> DataLoss(what)
      [] name = "Unauthenticated" -> Unauthenticated(what)
      [] name = "Exception" -> Exception(what)

(***************************************************************************)
(* constexpr std::string_view toStringView(const ErrorCode& code)          *)
(* The default branch is __builtin_unreachable(): reaching it is undefined *)
(* behaviour, recorded here as the marker Unreachable.                     *)
(***************************************************************************)
Unreachable == "<__builtin_unreachable>"

toStringViewNoException(code) ==
    CASE code = "CANCELLED" -> "Cancelled"
      [] code = "UNKNOWN" -> "Unknown"
      [] code = "INVALID_ARGUMENT" -> "InvalidArgument"
      [] code = "TIMEOUT" -> "Timeout"
      [] code = "NOT_FOUND" -> "NotFound"
      [] code = "ALREADY_EXISTS" -> "AlreadyExists"
      [] code = "PERMISSION_DENIED" -> "PermissionDenied"
      [] code = "RESOURCE_EXHAUSTED" -> "ResourceExhausted"
      [] code = "FAILED_PRECONDITION" -> "FailedPrecondition"
      [] code = "ABORTED" -> "Aborted"
      [] code = "OUT_OF_RANGE" -> "OutOfRange"
      [] code = "UNIMPLEMENTED" -> "Unimplemented"
      [] code = "INTERNAL" -> "Internal"
      [] code = "UNAVAILABLE" -> "Unavailable"
      [] code = "DATA_LOSS" -> "DataLoss"
      [] code = "UNAUTHENTICATED" -> "Unauthenticated"
      [] OTHER -> Unreachable

toStringView(code) ==
    CASE code = "CANCELLED" -> "Cancelled"
      [] code = "UNKNOWN" -> "Unknown"
      [] code = "INVALID_ARGUMENT" -> "InvalidArgument"
      [] code = "TIMEOUT" -> "Timeout"
      [] code = "NOT_FOUND" -> "NotFound"
      [] code = "ALREADY_EXISTS" -> "AlreadyExists"
      [] code = "PERMISSION_DENIED" -> "PermissionDenied"
      [] code = "RESOURCE_EXHAUSTED" -> "ResourceExhausted"
      [] code = "FAILED_PRECONDITION" -> "FailedPrecondition"
      [] code = "ABORTED" -> "Aborted"
      [] code = "OUT_OF_RANGE" -> "OutOfRange"
      [] code = "UNIMPLEMENTED" -> "Unimplemented"
      [] code = "INTERNAL" -> "Internal"
      [] code = "UNAVAILABLE" -> "Unavailable"
      [] code = "DATA_LOSS" -> "DataLoss"
      [] code = "UNAUTHENTICATED" -> "Unauthenticated"
      [] code = "EXCEPTION" -> "Exception"
      [] OTHER -> Unreachable

(***************************************************************************)
(* Result<T, E> = tl::expected<T, E>.  The container itself is the         *)
(* vendored header fp/_external/expected.hpp; what result.hpp uses of it:  *)
(* construction from a value, construction from tl::make_unexpected(e),    *)
(* operator bool / has_value(), value() and error().                       *)
(***************************************************************************)
\* tl::expected<T, E>{value}
ExpectedFromValue(value) == [has |-> TRUE, val |-> value]

\* tl::expected<T, E>(tl::make_unexpected(e))
make_unexpected(e) == [has |-> FALSE, err |-> e]

\* explicit operator bool() and has_value()
OperatorBool(exp) == exp.has
has_value(exp) == exp.has

\* exp.value() and exp.error(); reading the member that is not held is an
\* error of the caller (TLC stops on the missing field)
value(exp) == exp.val
error(exp) == exp.err

\* every Result<int, Error> over the bounded payloads
ValueResults == { ExpectedFromValue(v) : v \in Values }
ErrorResults == { make_unexpected(e) : e \in Error }
Results == ValueResults \cup ErrorResults

\* constexpr Result<T, E> make_result(T value)
make_result(v) == ExpectedFromValue(v)

\* constexpr bool has_error(const tl::expected<T, E>& exp)
has_errorNotNegated(exp) == OperatorBool(exp)
has_error(exp) == ~OperatorBool(exp)

(***************************************************************************)
(* std::optional<E>: a sequence of length 0 (nullopt) or 1.                *)
(***************************************************************************)
nullopt == <<>>
OptHasValue(o) == Len(o) > 0

(***************************************************************************)
(* maybe_error: the body of the lambda applied to each element of the      *)
(* pack, as a function from the captured optional and the element to the   *)
(* optional afterwards.                                                    *)
(***************************************************************************)
LambdaOverwrite(mb, exp) ==
    IF has_error(exp) THEN <<error(exp)>> ELSE mb

Lambda(mb, exp) ==
    IF OptHasValue(mb) THEN mb
    ELSE IF has_error(exp) THEN <<error(exp)>>
    ELSE mb

\* whether the lambda evaluates has_error(exp): not after its early return
LambdaTests(mb) == ~OptHasValue(mb)

(***************************************************************************)
(* fmt: a format string is the sequence of its literal pieces and "{}"     *)
(* replacement fields; formatting replaces the i-th field by the i-th      *)
(* argument as rendered by the formatter of its type.                      *)
(***************************************************************************)
Field == "{}"

RECURSIVE Vformat(_, _)
Vformat(pieces, rendered) ==
    IF pieces = <<>> THEN ""
    ELSE IF Head(pieces) = Field
         THEN Head(rendered) \o Vformat(Tail(pieces), Tail(rendered))
         ELSE Head(pieces) \o Vformat(Tail(pieces), rendered)

\* fmt's rendering of an int under "{}": decimal, '-' for negatives
Digits == <<"0", "1", "2", "3", "4", "5", "6", "7", "8", "9">>

RECURSIVE FormatNat(_)
FormatNat(n) ==
    IF n < 10 THEN Digits[n + 1]
    ELSE FormatNat(n \div 10) \o Digits[(n % 10) + 1]

FormatInt(n) == IF n < 0 THEN "-" \o FormatNat(0 - n) ELSE FormatNat(n)

\* fmt::formatter<fp::Error>::format
FormatErrorCodeOnly(e) ==
    Vformat(<<"[Error: [", Field, "]]">>, <<toStringView(e.code)>>)

FormatError(e) ==
    Vformat(<<"[Error: [", Field, "] ", Field, "]">>,
            <<toStringView(e.code), e.what>>)

\* fmt::formatter<fp::Result<T>>::format
FormatResult(result) ==
    IF has_value(result)
    THEN Vformat(<<"[Result<T>: value=", Field, "]">>, <<FormatInt(value(result))>>)
    ELSE Vformat(<<"[Result<T>: ", Field, "]">>, <<FormatError(error(result))>>)

(***************************************************************************)
(* Exceptions a callable handed to try_to_result may throw: the name is    *)
(* what abi::__cxa_current_exception_type()->name() yields for the thrown  *)
(* type, isStd whether the type derives from std::exception (whether the   *)
(* handler catch (const std::exception&) matches).                         *)
(***************************************************************************)
ThrownTypes ==
    { [name |-> "St13runtime_error", isStd |-> TRUE],
      [name |-> "St11logic_error", isStd |-> TRUE],
      [name |-> "St12out_of_range", isStd |-> TRUE],
      [name |-> "i", isStd |-> FALSE],
      [name |-> "PKc", isStd |-> FALSE] }

\* the zero-argument callables f: return a value, or throw
Callables ==
    { [kind |-> "return", val |-> v] : v \in Values }
    \cup { [kind |-> "throw", type |-> t.name, isStd |-> t.isStd, what |-> w] :
             t \in ThrownTypes, w \in Whats }

\* the Results handed to maybe_error (value types may differ, E is Error)
PackResults ==
    { make_result(1), make_result(2),
      make_unexpected(NotFound("x")), make_unexpected(Timeout("y")),
      make_unexpected(NotFound("y")), make_unexpected(Timeout("x")) }

RECURSIVE Packs(_)
Packs(n) ==
    IF n = 0 THEN { <<>> }
    ELSE Packs(n - 1) \cup
         { Append(p, r) : p \in { q \in Packs(n - 1) : Len(q) = n - 1 }, r \in PackResults }

(***************************************************************************)
(* A behaviour is one call: Init chooses the function and its arguments.   *)
(***************************************************************************)
Init ==
    /\ pc = "call"
    /\ ret = NoRet
    /\ maybe = nullopt
    /\ idx = 0
    /\ visited = <<>>
    /\ tested = {}
    /\ calls = 0
    /\ fret = <<>>
    /\ exc = <<>>
    /\ \/ op = "toStringView" /\ args \in { <<c>> : c \in ErrorCode }
       \/ op \in {"operator==", "operator!="} /\ args \in Error \X Error
       \/ op = "NamedConstructor"
            /\ \E i \in 1..Len(ConstructorDecls) :
                 args \in { <<ConstructorDecls[i]>> }
                         \cup { <<ConstructorDecls[i], w>> : w \in Whats }
       \/ op = "Error{}" /\ args = <<>>
       \/ op = "make_result" /\ args \in { <<v>> : v \in Values }
       \/ op = "make_unexpected" /\ args \in { <<e>> : e \in Error }
       \/ op = "has_error" /\ args \in { <<r>> : r \in Results }
       \/ op = "format Error" /\ args \in { <<e>> : e \in Error }
       \/ op = "format Result" /\ args \in { <<r>> : r \in Results }
       \/ op = "maybe_error" /\ args \in Packs(MaxArgs)
       \/ op = "try_to_result" /\ args \in { <<f>> : f \in Callables }

\* a function without internal steps returns `result`
Return(result) ==
    /\ pc = "call"
    /\ pc' = "done"
    /\ ret' = result
    /\ UNCHANGED <<op, args, maybe, idx, visited, tested, calls, fret, exc>>

CallToStringView == op = "toStringView" /\ Return(toStringView(args[1]))

CallOperatorEq == op = "operator==" /\ Return(OperatorEq(args[1], args[2]))

CallOperatorNe == op = "operator!=" /\ Return(OperatorNe(args[1], args[2]))

\* a call that omits the argument gets the declaration's default
CallNamedConstructor ==
    /\ op = "NamedConstructor"
    /\ Return(NamedConstructor(args[1],
                               IF Len(args) = 1 THEN DefaultWhat ELSE args[2]))

CallDefaultError == op = "Error{}" /\ Return(DefaultError)

CallMakeResult == op = "make_result" /\ Return(make_result(args[1]))

CallMakeUnexpected == op = "make_unexpected" /\ Return(make_unexpected(args[1]))

CallHasError == op = "has_error" /\ Return(has_error(args[1]))

CallFormatError == op = "format Error" /\ Return(FormatError(args[1]))

CallFormatResult == op = "format Result" /\ Return(FormatResult(args[1]))

(***************************************************************************)
(* maybe_error(args...)                                                    *)
(***************************************************************************)
\* auto maybe = std::optional<E>{std::nullopt};
MaybeEnter ==
    /\ op = "maybe_error"
    /\ pc = "call"
    /\ pc' = "fold"
    /\ maybe' = nullopt
    /\ idx' = 1
    /\ UNCHANGED <<op, args, ret, visited, tested, calls, fret, exc>>

\* a fold that stops at the first element holding an error
FoldStepShortCircuit ==
    /\ op = "maybe_error"
    /\ pc = "fold"
    /\ idx <= Len(args)
    /\ maybe' = Lambda(maybe, args[idx])
    /\ visited' = Append(visited, idx)
    /\ tested' = IF LambdaTests(maybe) THEN tested \cup {idx} ELSE tested
    /\ idx' = IF OptHasValue(maybe') THEN Len(args) + 1 ELSE idx + 1
    /\ UNCHANGED <<op, args, pc, ret, calls, fret, exc>>

\* ( lambda(args), ... ) : one step of the fold over the comma operator, which
\* applies the lambda to the next element of the pack, left to right
FoldStep ==
    /\ op = "maybe_error"
    /\ pc = "fold"
    /\ idx <= Len(args)
    /\ maybe' = Lambda(maybe, args[idx])
    /\ visited' = Append(visited, idx)
    /\ tested' = IF LambdaTests(maybe) THEN tested \cup {idx} ELSE tested
    /\ idx' = idx + 1
    /\ UNCHANGED <<op, args, pc, ret, calls, fret, exc>>

\* return maybe;
MaybeReturn ==
    /\ op = "maybe_error"
    /\ pc = "fold"
    /\ idx > Len(args)
    /\ pc' = "done"
    /\ ret' = maybe
    /\ UNCHANGED <<op, args, maybe, idx, visited, tested, calls, fret, exc>>

(***************************************************************************)
(* try_to_result(f)                                                        *)
(***************************************************************************)
\* try { ... f() ... } : f runs and either returns or throws
InvokeF ==
    /\ op = "try_to_result"
    /\ pc = "call"
    /\ calls' = calls + 1
    /\ IF args[1].kind = "return"
       THEN /\ fret' = <<args[1].val>>
            /\ exc' = exc
            /\ pc' = "returned"
       ELSE /\ exc' = << [type |-> args[1].type, isStd |-> args[1].isStd,
                          what |-> args[1].what] >>
            /\ fret' = fret
            /\ pc' = "thrown"
    /\ UNCHANGED <<op, args, ret, maybe, idx, visited, tested>>

\* return make_result(f());
TryReturn ==
    /\ op = "try_to_result"
    /\ pc = "returned"
    /\ ret' = make_result(fret[1])
    /\ pc' = "done"
    /\ UNCHANGED <<op, args, maybe, idx, visited, tested, calls, fret, exc>>

\* a handler that matches every exception, catch (...)
CatchesAll == TRUE

\* catch (const std::exception& ex) : whether the handler matches the
\* exception in flight
Catches == exc[1].isStd

\* a handler that runs f again after a caught exception
TryCatchRetry ==
    /\ op = "try_to_result"
    /\ pc = "thrown"
    /\ exc[1].isStd
    /\ exc' = <<>>
    /\ pc' = "call"
    /\ UNCHANGED <<op, args, ret, maybe, idx, visited, tested, calls, fret>>

\* a handler that reports only the message
TryCatchMessageOnly ==
    /\ op = "try_to_result"
    /\ pc = "thrown"
    /\ exc[1].isStd
    /\ ret' = make_unexpected(Exception(exc[1].what))
    /\ exc' = <<>>
    /\ pc' = "done"
    /\ UNCHANGED <<op, args, maybe, idx, visited, tested, calls, fret>>

\* catch (const std::exception& ex) { return tl::make_unexpected(Exception(
\*     fmt::format("[{}: {}]", <current exception type name>, ex.what()))); }
TryCatch ==
    /\ op = "try_to_result"
    /\ pc = "thrown"
    /\ Catches
    /\ ret' = make_unexpected(Exception(
                  Vformat(<<"[", Field, ": ", Field, "]">>,
                          <<exc[1].type, exc[1].what>>)))
    /\ exc' = <<>>
    /\ pc' = "done"
    /\ UNCHANGED <<op, args, maybe, idx, visited, tested, calls, fret>>

\* no handler matches: the exception leaves try_to_result
TryPropagate ==
    /\ op = "try_to_result"
    /\ pc = "thrown"
    /\ ~Catches
    /\ pc' = "propagated"
    /\ UNCHANGED <<op, args, ret, maybe, idx, visited, tested, calls, fret, exc>>

Next ==
    \/ CallToStringView
    \/ CallOperatorEq
    \/ CallOperatorNe
    \/ CallNamedConstructor
    \/ CallDefaultError
    \/ CallMakeResult
    \/ CallMakeUnexpected
    \/ CallHasError
    \/ CallFormatError
    \/ CallFormatResult
    \/ MaybeEnter
    \/ FoldStep
    \/ MaybeReturn
    \/ InvokeF
    \/ TryReturn
    \/ TryCatch
    \/ TryPropagate

Spec == Init /\ [][Next]_vars

\* every step of try_to_result is taken once it can be: the function runs on
\* the calling thread to completion
LiveSpec ==
    Spec /\ WF_vars(InvokeF) /\ WF_vars(TryReturn) /\ WF_vars(TryCatch)
         /\ WF_vars(TryPropagate)

(***************************************************************************)
(* What the claims speak of, stated on the data and not through the        *)
(* functions under test.                                                   *)
(***************************************************************************)
\* the Result holds the error variant / the success variant
HoldsError(r) == "err" \in DOMAIN r /\ "val" \notin DOMAIN r
HoldsValue(r) == "val" \in DOMAIN r /\ "err" \notin DOMAIN r

\* the pack positions whose Result holds an error
ErrorPositions(pack) == { i \in 1..Len(pack) : HoldsError(pack[i]) }

\* the smallest member of a non-empty set of positions
Smallest(S) == CHOOSE i \in S : \A j \in S : i <= j

\* the call has returned
Returned(name) == op = name /\ pc = "done"

(***************************************************************************)
(* C1: maybe_error returns the error of the Result with the smallest index *)
(* holding an error, and nothing if and only if every Result holds a       *)
(* value; it never returns the error of a later Result when an earlier one *)
(* holds an error.                                                         *)
(***************************************************************************)
C1_MaybeErrorReturnsFirstError ==
    Returned("maybe_error") =>
        LET errs == ErrorPositions(args) IN
        /\ (ret = nullopt) <=> (errs = {})
        /\ errs # {} => ret = << args[Smallest(errs)].err >>

C1_Witness ==
    /\ Returned("maybe_error")
    /\ args = << make_result(1), make_unexpected(NotFound("x")),
                 make_unexpected(Timeout("y")) >>
    /\ ret = << NotFound("x") >>

(***************************************************************************)
(* C2: try_to_result(f): when f returns v the result is the success Result *)
(* holding v; when f throws an exception of the std::exception hierarchy   *)
(* with type name N and message M the result is the error Result whose     *)
(* Error has code EXCEPTION and what = "[N: M]", and nothing escapes.      *)
(***************************************************************************)
C2_TryToResultConverts ==
    (op = "try_to_result" /\ (args[1].kind = "return" \/ args[1].isStd)) =>
        /\ pc # "propagated"
        /\ pc = "done" =>
             /\ exc = <<>>
             /\ IF args[1].kind = "return"
                THEN HoldsValue(ret) /\ ret.val = args[1].val
                ELSE /\ HoldsError(ret)
                     /\ ret.err.code = "EXCEPTION"
                     /\ ret.err.what =
                          "[" \o args[1].type \o ": " \o args[1].what \o "]"

C2_Witness ==
    /\ Returned("try_to_result")
    /\ args[1].kind = "throw"
    /\ args[1].type = "St13runtime_error"
    /\ args[1].what = "boom"
    /\ ret.err = [code |-> "EXCEPTION", what |-> "[St13runtime_error: boom]"]

(***************************************************************************)
(* C3: when f throws something not derived from std::exception,            *)
(* try_to_result returns no Result (neither a success nor an Error with    *)
(* code EXCEPTION) and the same exception leaves it unchanged.             *)
(***************************************************************************)
C3_ForeignFaultPropagates ==
    (op = "try_to_result" /\ args[1].kind = "throw" /\ ~args[1].isStd) =>
        /\ pc # "done"
        /\ ret = NoRet
        /\ pc = "thrown" => ENABLED TryPropagate
        /\ pc \in {"thrown", "propagated"} =>
             exc = << [type |-> args[1].type, isStd |-> FALSE,
                       what |-> args[1].what] >>

C3_Witness ==
    /\ op = "try_to_result"
    /\ pc = "propagated"
    /\ calls = 1
    /\ exc = << [type |-> "PKc", isStd |-> FALSE, what |-> "boom"] >>
    /\ ret = NoRet

(***************************************************************************)
(* C4: a Result holds exactly one of a value or an error and has_error     *)
(* tells which: make_result(v) holds the value v and has_error of it is    *)
(* false; a Result made from the error e has has_error true and its error  *)
(* is e; has_error(r) is true iff r holds the error variant and false iff  *)
(* r holds a value.                                                        *)
(***************************************************************************)
C4_HasErrorTellsVariant ==
    /\ Returned("make_result") =>
         /\ HoldsValue(ret)
         /\ value(ret) = args[1]
         /\ has_error(ret) = FALSE
    /\ Returned("make_unexpected") =>
         /\ HoldsError(ret)
         /\ error(ret) = args[1]
         /\ has_error(ret) = TRUE
    /\ Returned("has_error") =>
         /\ HoldsError(args[1]) # HoldsValue(args[1])
         /\ ret = TRUE <=> HoldsError(args[1])
         /\ ret = FALSE <=> HoldsValue(args[1])

C4_Witness ==
    /\ Returned("has_error")
    /\ args[1] = make_unexpected(NotFound("x"))
    /\ ret = TRUE

(***************************************************************************)
(* C5: Error equality is structural and an equivalence: a == b iff the     *)
(* codes are equal and the texts are equal; == is reflexive, symmetric and *)
(* transitive; a != b is exactly the negation of a == b.                   *)
(***************************************************************************)
C5_ErrorEqualityStructural ==
    /\ Returned("operator==") =>
         LET a == args[1]
             b == args[2] IN
         /\ ret <=> (a.code = b.code /\ a.what = b.what)
         /\ (a.code # b.code \/ a.what # b.what) => ret = FALSE
         /\ OperatorEq(a, a)
         /\ OperatorEq(b, a) <=> ret
         /\ \A c \in Error : (ret /\ OperatorEq(b, c)) => OperatorEq(a, c)
         /\ OperatorNe(a, b) <=> ~ret
    /\ Returned("operator!=") =>
         ret <=> ~OperatorEq(args[1], args[2])

C5_Witness ==
    /\ Returned("operator!=")
    /\ args = << NotFound("x"), NotFound("y") >>
    /\ ret = TRUE

(***************************************************************************)
(* C6: each of the 17 ErrorCode variants has a named constructor that      *)
(* returns, for every text w, the Error with that code and what = w, and   *)
(* with what = "" when the argument is omitted; a default-constructed      *)
(* Error has code UNKNOWN and empty what.                                  *)
(***************************************************************************)
C6_NamedConstructors ==
    /\ Len(ConstructorDecls) = 17
    /\ Cardinality(ErrorCode) = 17
    /\ Returned("NamedConstructor") =>
         \E i \in 1..Len(ConstructorDecls) :
            /\ ConstructorDecls[i] = args[1]
            /\ ret.code = ErrorCodeEnum[i]
            /\ ret.what = IF Len(args) = 2 THEN args[2] ELSE ""
    /\ Returned("Error{}") => ret.code = "UNKNOWN" /\ ret.what = ""

C6_Witness ==
    /\ Returned("NamedConstructor")
    /\ args = << "DataLoss" >>
    /\ ret = [code |-> "DATA_LOSS", what |-> ""]

(***************************************************************************)
(* C7: toStringView is total on the 17 variants: each is handled by an     *)
(* explicit case (the unreachable default is never taken) and maps to a    *)
(* non-empty name, the name of its constructor, and no two variants map to *)
(* the same name.                                                          *)
(***************************************************************************)
C7_ToStringViewTotalInjective ==
    Returned("toStringView") =>
        /\ ret # Unreachable
        /\ Len(ret) > 0
        /\ \E i \in 1..Len(ErrorCodeEnum) :
              ErrorCodeEnum[i] = args[1] /\ ret = ConstructorDecls[i]
        /\ \A d \in ErrorCode : toStringView(d) = ret => d = args[1]

C7_Witness ==
    /\ Returned("toStringView")
    /\ args = << "EXCEPTION" >>
    /\ ret = "Exception"

(***************************************************************************)
(* C8: an Error e renders as "[Error: [" + toStringView(e.code) + "] " +   *)
(* e.what + "]"; a Result renders as "[Result<T>: value=" + its rendered   *)
(* value + "]" when it holds a value and as "[Result<T>: " + its rendered  *)
(* error + "]" when it holds an error, the branch agreeing with has_error. *)
(***************************************************************************)
C8_ErrorText(e) == "[Error: [" \o toStringView(e.code) \o "] " \o e.what \o "]"

C8_Rendering ==
    /\ Returned("format Error") => ret = C8_ErrorText(args[1])
    /\ Returned("format Result") =>
         IF has_error(args[1])
         THEN /\ HoldsError(args[1])
              /\ ret = "[Result<T>: " \o C8_ErrorText(args[1].err) \o "]"
         ELSE /\ HoldsValue(args[1])
              /\ ret = "[Result<T>: value=" \o FormatInt(args[1].val) \o "]"

C8_Witness ==
    /\ Returned("format Result")
    /\ args = << make_unexpected(NotFound("user 1")) >>
    /\ ret = "[Result<T>: [Error: [NotFound] user 1]]"

(***************************************************************************)
(* C9: maybe_error goes through its arguments in declared order and        *)
(* reaches every one of them, those after the first error included:        *)
(* argument i is visited before argument i + 1, the last argument is       *)
(* reached on every call, and once an error is recorded no later argument  *)
(* changes it.                                                             *)
(***************************************************************************)
C9_Step ==
    op = "maybe_error" =>
        /\ (pc = "fold" /\ pc' = "fold") =>
             /\ idx' = idx + 1
             /\ visited' = Append(visited, idx)
             /\ OptHasValue(maybe) => maybe' = maybe
        /\ (pc = "fold" /\ pc' = "done") =>
             /\ visited = [i \in 1..Len(args) |-> i]
             /\ ret' = maybe

C10_Once ==
    op = "try_to_result" =>
        /\ calls <= 1
        /\ pc # "call" => calls = 1
        /\ pc = "done" =>
             /\ exc = <<>>
             /\ HoldsValue(ret) # HoldsError(ret)
             /\ HoldsValue(ret) <=> args[1].kind = "return"
        /\ pc = "propagated" => ret = NoRet /\ exc # <<>>

C10_Running == op = "try_to_result" /\ pc \in {"call", "returned", "thrown"}

C10_Ended == op = "try_to_result" /\ pc \in {"done", "propagated"} /\ calls = 1

C10_InvokesOnceAndEnds == []C10_Once /\ (C10_Running ~> C10_Ended)

C10_Witness ==
    /\ Returned("try_to_result")
    /\ args[1].kind = "throw"
    /\ calls = 1
    /\ HoldsError(ret)

====
